---------------------------- MODULE Spec2Model ----------------------------
(***************************************************************************)
(* Model of the multi-topic frame consumer, services/consumer/consumer.py. *)
(*                                                                         *)
(* One control thread runs FrameProcessor.start (the poll loop) and, on a  *)
(* shutdown signal, FrameProcessor.stop; a ThreadPoolExecutor with one     *)
(* worker per topic runs FrameProcessor.process_batch.  A step of the      *)
(* model is one handler of the control thread (a cleanup, the handling of  *)
(* one poll result, one step of stop) or one step of a worker (an HTTP     *)
(* attempt, the upload phase, the future being marked done).               *)
(***************************************************************************)
EXTENDS Integers, Sequences, FiniteSets, TLC

\* ---------------------------------------------------------------- bounds
\* Messages polled from the broker, over all topics.
MaxPolled == 3
\* The clock runs from 1 to MaxTime.
MaxTime == 3
\* Shutdown signals delivered to the process (a signal after the first
\* interrupts stop() and runs it again).
MaxSignals == 1
\* settings.batch_size and settings.batch_timeout_seconds (consumer.py
\* 112-113, defaults 25 and 5.0), scaled down.
batch_size == 2
batch_timeout_seconds == 2
\* Longest window handed to the submission that SpecSubmit follows.
MaxWindow == 2
\* Longest batch handed to the call of process_batch that SpecBatch follows
\* (two full chunks and one more record).
MaxBatchLen == 51

\* ------------------------------------------------------------- constants
\* The two default topics of settings.kafka_topics.
NumTopics == 2
\* stop_after_attempt(3) of the retry decorators.
stop_after_attempt == 3
\* max_chunk_size of call_inference_service.
max_chunk_size == 25

Topics == 1..NumTopics
\* batch_start_times[topic] = None
None == 0

VARIABLES
    pc,                 \* position of the control thread
    running,            \* self.running
    now,                \* time.time()
    batches,            \* self.batches: topic -> open window
    batch_start_times,  \* self.batch_start_times
    pending_batches,    \* self.pending_batches: the in-flight flags
    pending_futures,    \* self.pending_futures, each with its future's task
    position,           \* consumer position: messages polled per topic
    committed,          \* position stored at the broker by the last commit
    wait_i,             \* stop(): index of the loop over pending_futures
    flush_t,            \* stop(): topic of the loop over self.topics
    direct,             \* stop(): its running call of process_batch
    suspended,          \* frames of stop() interrupted by a later signal
    signals,            \* shutdown signals delivered so far
    received,           \* history: valid records received, per topic
    handed,             \* history: records handed to process_batch, per topic
    failed,             \* history: records of batches that returned False
    lastCommit,         \* history: what the last commit found
    stopInflight,       \* history: topics in flight when shutdown began
    stats,              \* frames_processed, batches_processed, frames_per_topic
    unkeyed,            \* records received that have no "stream_id" field
    call,               \* one call of process_batch, step by step (SpecBatch)
    predict             \* one request to POST /predict, step by step (SpecPredict)

\* The consumer's state, all but the call of process_batch under study.
consumer_vars == <<pc, running, now, batches, batch_start_times, pending_batches,
                   pending_futures, position, committed, wait_i, flush_t, direct,
                   suspended, signals, received, handed, failed, lastCommit,
                   stopInflight, stats, unkeyed>>

vars == <<consumer_vars, call, predict>>

\* ---------------------------------------------------------------- helpers
Range(s) == {s[i] : i \in 1..Len(s)}

\* The offsets of the records of a window.
Offsets(batch) == [i \in 1..Len(batch) |-> batch[i].off]

RECURSIVE Sum(_, _)
Sum(f, S) == IF S = {} THEN 0
             ELSE LET x == CHOOSE y \in S : TRUE IN f[x] + Sum(f, S \ {x})

\* A call of process_batch(batch, topic): on a worker, behind a future
\* (queued -> infer -> upload -> returned -> done), or made by stop().
\* chunk: the chunk call_inference_service is at; attempts and lastErr:
\* the attempts made of the current chunk call and the last error raised.
NoTask == [topic |-> 0, batch |-> <<>>, st |-> "none", chunk |-> 0,
           attempts |-> 0, lastErr |-> "none", ok |-> FALSE]

NewTask(t, offs, st) == [topic |-> t, batch |-> offs, st |-> st, chunk |-> 1,
                         attempts |-> 0, lastErr |-> "none", ok |-> FALSE]

\* A done future holds the call's result and nothing else of it.
Done(task) == [NoTask EXCEPT !.topic = task.topic, !.st = "done", !.ok = task.ok]

\* A suspended call: only its topic and batch matter, it never resumes.
Frame(task) == [NoTask EXCEPT !.topic = task.topic, !.batch = task.batch,
                              !.st = "suspended"]

\* Inside process_batch, before its finally block.
InBody(task) == task.st \in {"infer", "upload"}

\* ------------------------------------------------ should_process_batch
should_process_batch_gt(batch, batch_start_time, t_now) ==
    IF Len(batch) > batch_size THEN TRUE
    ELSE IF batch_start_time # None /\ batch # <<>>
              /\ t_now - batch_start_time >= batch_timeout_seconds THEN TRUE
    ELSE FALSE

\* (A trigger on the window's age alone; not what the code does, see C29.)
should_process_batch_timed(batch, batch_start_time, t_now) ==
    IF batch_start_time # None /\ batch # <<>>
          /\ t_now - batch_start_time >= batch_timeout_seconds THEN TRUE
    ELSE FALSE

should_process_batch(batch, batch_start_time, t_now) ==
    IF Len(batch) >= batch_size THEN TRUE
    ELSE IF batch_start_time # None /\ batch # <<>>
              /\ t_now - batch_start_time >= batch_timeout_seconds THEN TRUE
    ELSE FALSE


\* ------------------------------------------- submit_batch_for_processing
\* The dispatcher state a submission reads and writes: b = batches,
\* s = batch_start_times, p = pending_batches, f = pending_futures,
\* h = handed (history).
Dispatcher == [b |-> batches, s |-> batch_start_times, p |-> pending_batches,
               f |-> pending_futures, h |-> handed]

\* (A submission that forgets to mark its topic as in flight; not what the
\* code does, see C13.)
submit_batch_unmarked(D, t) ==
    IF D.p[t] THEN D
    ELSE IF D.b[t] = <<>> THEN D
    ELSE [D EXCEPT !.b[t] = <<>>,
                   !.s[t] = None,
                   !.f = Append(@, NewTask(t, Offsets(D.b[t]), "queued")),
                   !.h[t] = @ \o Offsets(D.b[t])]

\* (A submission made whatever the topic's flag; not what the code does,
\* see C24.)
submit_batch_forced(D, t) ==
    IF D.b[t] = <<>> THEN D
    ELSE [D EXCEPT !.p[t] = TRUE,
                   !.b[t] = <<>>,
                   !.s[t] = None,
                   !.f = Append(@, NewTask(t, Offsets(D.b[t]), "queued")),
                   !.h[t] = @ \o Offsets(D.b[t])]

\* (A submission that leaves the records in the window; not what the code
\* does, see C25.)
submit_batch_kept(D, t) ==
    IF D.p[t] THEN D
    ELSE IF D.b[t] = <<>> THEN D
    ELSE [D EXCEPT !.p[t] = TRUE,
                   !.f = Append(@, NewTask(t, Offsets(D.b[t]), "queued")),
                   !.h[t] = @ \o Offsets(D.b[t])]

submit_batch_for_processing(D, t) ==
    IF D.p[t] THEN D
    ELSE IF D.b[t] = <<>> THEN D
    ELSE [D EXCEPT !.p[t] = TRUE,
                   !.b[t] = <<>>,
                   !.s[t] = None,
                   !.f = Append(@, NewTask(t, Offsets(D.b[t]), "queued")),
                   !.h[t] = @ \o Offsets(D.b[t])]

\* (A check that looks at the first topic only; not what the code does,
\* see C21.)
check_and_submit_first(D, t, t_now) ==
    IF should_process_batch(D.b[1], D.s[1], t_now) /\ D.b[1] # <<>>
    THEN submit_batch_for_processing(D, 1) ELSE D

\* check_and_submit_timeouts: the topics in the order of self.topics.
RECURSIVE check_and_submit_timeouts(_, _, _)
check_and_submit_timeouts(D, t, t_now) ==
    IF t > NumTopics THEN D
    ELSE check_and_submit_timeouts(
             IF should_process_batch(D.b[t], D.s[t], t_now) /\ D.b[t] # <<>>
             THEN submit_batch_for_processing(D, t) ELSE D,
             t + 1, t_now)

\* (A record appended without noting the window's start time; not what the
\* code does, see C32.)
AppendRecordUnstamped(D, t, off, t_now) ==
    IF D.p[t] THEN D
    ELSE LET D1 == [D EXCEPT !.b[t] = Append(@, [off |-> off, at |-> t_now])]
         IN IF should_process_batch(D1.b[t], D1.s[t], t_now)
            THEN submit_batch_for_processing(D1, t) ELSE D1

\* (A record appended whatever the topic's flag; not what the code does,
\* see C28.)
AppendRecordAlways(D, t, off, t_now) ==
    LET D1 == [D EXCEPT !.s[t] = IF D.b[t] = <<>> THEN t_now ELSE @,
                        !.b[t] = Append(@, [off |-> off, at |-> t_now])]
    IN IF should_process_batch(D1.b[t], D1.s[t], t_now)
       THEN submit_batch_for_processing(D1, t) ELSE D1

\* The poll loop's handling of a valid record of topic t (consumer.py
\* 555-563): appended only if the topic has no batch in flight.
AppendRecord(D, t, off, t_now) ==
    IF D.p[t] THEN D
    ELSE LET D1 == [D EXCEPT !.s[t] = IF D.b[t] = <<>> THEN t_now ELSE @,
                             !.b[t] = Append(@, [off |-> off, at |-> t_now])]
         IN IF should_process_batch(D1.b[t], D1.s[t], t_now)
            THEN submit_batch_for_processing(D1, t) ELSE D1

SetDispatcher(D) ==
    /\ batches' = D.b
    /\ batch_start_times' = D.s
    /\ pending_batches' = D.p
    /\ pending_futures' = D.f
    /\ handed' = D.h

\* ------------------------------------------------------------ the commit
IsDone(task) == task.st = "done"
NotDone(task) == task.st # "done"

\* Topics with a submitted batch whose future is not done.
Outstanding(futs) == {futs[i].topic : i \in {j \in 1..Len(futs) : NotDone(futs[j])}}

\* The calls of process_batch that have not returned.
OpenCalls(futs) ==
    {futs[i] : i \in {j \in 1..Len(futs) : futs[j].st \in {"queued", "infer", "upload"}}}
    \cup (IF InBody(direct) THEN {direct} ELSE {})
    \cup {suspended[i] : i \in 1..Len(suspended)}

\* Valid records polled so far whose processing attempt has not resolved:
\* never handed to process_batch, or inside a call that has not returned.
Unresolved(futs) ==
    {<<t, off>> \in Topics \X (1..MaxPolled) :
        /\ off \in Range(received[t])
        /\ \/ off \notin Range(handed[t])
           \/ \E c \in OpenCalls(futs) : c.topic = t /\ off \in Range(c.batch)}

\* consumer.commit(asynchronous=False): stores the consumer's position.  (A
\* commit that raises is logged or swallowed and changes nothing: it is a
\* step in which no commit happened.)
Commit(kind, futs) ==
    /\ committed' = position
    /\ lastCommit' = [kind |-> kind,
                      outstanding |-> Outstanding(futs),
                      unresolved |-> Unresolved(futs)]

\* cleanup_completed_futures: whether it commits.
CommitDueAlways(completed, still_pending) == TRUE

CommitDue(completed, still_pending) == completed # <<>>

Cleanup ==
    /\ pc = "cleanup" /\ running
    /\ LET completed == SelectSeq(pending_futures, IsDone)
           still_pending == SelectSeq(pending_futures, NotDone)
       IN /\ pending_futures' = still_pending
          /\ IF CommitDue(completed, still_pending)
             THEN Commit("cleanup", still_pending)
             ELSE UNCHANGED <<committed, lastCommit>>
    /\ pc' = "poll"
    /\ UNCHANGED call
    /\ UNCHANGED unkeyed
    /\ UNCHANGED predict
    /\ UNCHANGED stats
    /\ UNCHANGED <<running, now, batches, batch_start_times, pending_batches,
                   position, wait_i, flush_t, direct, suspended, received,
                   handed, failed, stopInflight, signals>>


\* ------------------------------------------------- start: the poll loop
Polled == Sum(position, Topics)

\* time.time() advances; only the poll loop reads the clock, when it
\* handles a poll result.
Tick ==
    /\ pc = "poll" /\ running
    /\ now < MaxTime
    /\ now' = now + 1
    /\ UNCHANGED call
    /\ UNCHANGED unkeyed
    /\ UNCHANGED predict
    /\ UNCHANGED stats
    /\ UNCHANGED <<pc, running, batches, batch_start_times, pending_batches,
                   pending_futures, position, committed, wait_i, flush_t,
                   direct, suspended, received, handed, failed, lastCommit,
                   stopInflight, signals>>

\* consumer.poll returned None: the windows' timeouts are checked.
PollNone ==
    /\ pc = "poll" /\ running
    /\ SetDispatcher(check_and_submit_timeouts(Dispatcher, 1, now))
    /\ pc' = "cleanup"
    /\ UNCHANGED call
    /\ UNCHANGED unkeyed
    /\ UNCHANGED predict
    /\ UNCHANGED stats
    /\ UNCHANGED <<running, now, position, committed, wait_i, flush_t, direct,
                   suspended, received, failed, lastCommit, stopInflight,
                   signals>>

\* consumer.poll returned an error event (partition EOF or another error).
PollError ==
    /\ pc = "poll" /\ running
    /\ pc' = "cleanup"
    /\ UNCHANGED call
    /\ UNCHANGED unkeyed
    /\ UNCHANGED predict
    /\ UNCHANGED stats
    /\ UNCHANGED <<running, now, batches, batch_start_times, pending_batches,
                   pending_futures, position, committed, wait_i, flush_t,
                   direct, suspended, received, handed, failed, lastCommit,
                   stopInflight, signals>>

\* (A malformed message that ends up in the topic's window; not what the
\* code does, see C23.)
PollMalformedKept(t) ==
    /\ pc = "poll" /\ running
    /\ Polled < MaxPolled
    /\ position' = [position EXCEPT ![t] = @ + 1]
    /\ SetDispatcher(AppendRecordAlways(Dispatcher, t, position[t] + 1, now))
    /\ pc' = "cleanup"
    /\ UNCHANGED call
    /\ UNCHANGED unkeyed
    /\ UNCHANGED predict
    /\ UNCHANGED stats
    /\ UNCHANGED <<running, now, committed, wait_i, flush_t, direct,
                   suspended, received, failed, lastCommit, stopInflight,
                   signals>>

\* consumer.poll returned a message of topic t whose value is not JSON
\* (or not a JSON object: the loop's except clause then drops it as well).
PollMalformed(t) ==
    /\ pc = "poll" /\ running
    /\ Polled < MaxPolled
    /\ position' = [position EXCEPT ![t] = @ + 1]
    /\ pc' = "cleanup"
    /\ UNCHANGED call
    /\ UNCHANGED unkeyed
    /\ UNCHANGED predict
    /\ UNCHANGED stats
    /\ UNCHANGED <<running, now, batches, batch_start_times, pending_batches,
                   pending_futures, committed, wait_i, flush_t, direct,
                   suspended, received, handed, failed, lastCommit,
                   stopInflight, signals>>

\* consumer.poll returned a valid record of topic t.
PollRecord(t) ==
    /\ pc = "poll" /\ running
    /\ Polled < MaxPolled
    /\ position' = [position EXCEPT ![t] = @ + 1]
    /\ received' = [received EXCEPT ![t] = Append(@, position[t] + 1)]
    /\ SetDispatcher(AppendRecord(Dispatcher, t, position[t] + 1, now))
    /\ pc' = "cleanup"
    /\ UNCHANGED call
    /\ UNCHANGED unkeyed
    /\ UNCHANGED predict
    /\ UNCHANGED stats
    /\ UNCHANGED <<running, now, committed, wait_i, flush_t, direct,
                   suspended, failed, lastCommit, stopInflight, signals>>

\* consumer.poll returned a message of topic t that is a JSON object with no
\* "stream_id" field: json.loads accepts it and the loop handles it as any
\* record.
PollUnkeyed(t) ==
    /\ pc = "poll" /\ running
    /\ Polled < MaxPolled
    /\ position' = [position EXCEPT ![t] = @ + 1]
    /\ received' = [received EXCEPT ![t] = Append(@, position[t] + 1)]
    /\ unkeyed' = unkeyed \cup {<<t, position[t] + 1>>}
    /\ SetDispatcher(AppendRecord(Dispatcher, t, position[t] + 1, now))
    /\ pc' = "cleanup"
    /\ UNCHANGED <<running, now, committed, wait_i, flush_t, direct,
                   suspended, failed, lastCommit, stopInflight, signals,
                   call, stats, predict>>

\* ---------------------------------------------------------- process_batch
\* One attempt of call_inference_service_chunk under its retry decorator
\* (stop_after_attempt(3), no retry predicate: every exception is retried;
\* after the last attempt the error is raised into process_batch, whose
\* except clauses return False and whose finally block clears the flag).
RetryAgain4(outcome, attempts) == attempts <= stop_after_attempt

RetryAgain(outcome, attempts) == attempts < stop_after_attempt

\* (NumChunksFloor: a split that loses the last, partial chunk; not what the
\* code does, see C16.)
NumChunksFloor(batch) == Len(batch) \div max_chunk_size

\* call_inference_service: range(0, len(batch), max_chunk_size).
NumChunks(batch) == (Len(batch) + max_chunk_size - 1) \div max_chunk_size

InferAttempt(task, outcome) ==
    LET a == task.attempts + 1 IN
    IF outcome = "ok"
    THEN IF task.chunk < NumChunks(task.batch)
         THEN [task EXCEPT !.chunk = @ + 1, !.attempts = 0, !.lastErr = "none"]
         ELSE [task EXCEPT !.st = "upload", !.attempts = 0, !.lastErr = "none"]
    ELSE IF RetryAgain(outcome, a)
    THEN [task EXCEPT !.attempts = a, !.lastErr = outcome]
    ELSE [task EXCEPT !.st = "returned", !.attempts = a, !.lastErr = outcome,
                      !.ok = FALSE]

\* The annotate-and-upload loop over the results, to the return: either
\* every upload_to_s3 succeeded (True) or one raised after its retries
\* (False).
UploadPhase(task, uploads_ok) ==
    [task EXCEPT !.st = "returned", !.ok = uploads_ok]

\* The finally block of process_batch.
Finally(task, flags) ==
    IF task.st = "returned" THEN [flags EXCEPT ![task.topic] = FALSE]
    ELSE flags

\* (Statistics that count a failed batch too; not what the code does, see
\* C22.)
StatsAfterAny(task, s) ==
    IF task.st = "returned"
    THEN [s EXCEPT !.batches_processed = @ + 1,
                   !.frames_processed = @ + Len(task.batch),
                   !.frames_per_topic[task.topic] = @ + Len(task.batch)]
    ELSE s

\* with self.stats_lock: the statistics, updated at the end of the try
\* block, which only a batch that succeeded reaches.
StatsAfter(task, s) ==
    IF task.st = "returned" /\ task.ok
    THEN [s EXCEPT !.batches_processed = @ + 1,
                   !.frames_processed = @ + Len(task.batch),
                   !.frames_per_topic[task.topic] = @ + Len(task.batch)]
    ELSE s

FailedBy(task) ==
    IF task.st = "returned" /\ ~task.ok
    THEN {<<task.topic, task.batch[i]>> : i \in 1..Len(task.batch)}
    ELSE {}

Outcomes == {"ok", "transient", "client"}

\* ------------------------------------------------------------ the workers
\* ThreadPoolExecutor(max_workers=len(self.topics)): a worker is busy from
\* taking a work item to marking its future done; items start in the
\* order they were submitted.
Busy == Cardinality({i \in 1..Len(pending_futures) :
                        pending_futures[i].st \in {"infer", "upload", "returned"}})

\* stream_id = batch[0]["stream_id"], before the try block: a first record
\* without that field raises KeyError out of process_batch, past its
\* except and finally clauses.
EntryRaises(task) == <<task.topic, task.batch[1]>> \in unkeyed

\* A worker takes the work item and enters process_batch; if the entry
\* raises, the future is done, holding the exception, and the topic's flag
\* is as it was.
WorkerStart(i) ==
    /\ pending_futures[i].st = "queued"
    /\ \A j \in 1..(i - 1) : pending_futures[j].st # "queued"
    /\ Busy < NumTopics
    /\ pending_futures' =
          [pending_futures EXCEPT
              ![i] = IF EntryRaises(@) THEN Done(@)
                     ELSE [@ EXCEPT !.st = "infer"]]
    /\ UNCHANGED call
    /\ UNCHANGED unkeyed
    /\ UNCHANGED predict
    /\ UNCHANGED stats
    /\ UNCHANGED <<pc, running, now, batches, batch_start_times,
                   pending_batches, position, committed, wait_i, flush_t,
                   direct, suspended, received, handed, failed, lastCommit,
                   stopInflight, signals>>

\* (WorkerStepCrash: a failure that escaped process_batch and ended the
\* poll loop; not what the code does, see C14.)
WorkerStepCrash(i, task) ==
    /\ pending_futures' = [pending_futures EXCEPT ![i] = task]
    /\ pending_batches' = Finally(task, pending_batches)
    /\ failed' = failed \cup FailedBy(task)
    /\ running' = IF FailedBy(task) # {} THEN FALSE ELSE running
    /\ UNCHANGED call
    /\ UNCHANGED unkeyed
    /\ UNCHANGED predict
    /\ stats' = StatsAfter(task, stats)
    /\ UNCHANGED <<pc, now, batches, batch_start_times, position,
                   committed, wait_i, flush_t, direct, suspended, received,
                   handed, lastCommit, stopInflight, signals>>

\* process_batch returns True or False and never raises: its except
\* clauses catch every Exception, so a failure changes the topic's flag and
\* nothing of the poll loop.
WorkerStep(i, task) ==
    /\ pending_futures' = [pending_futures EXCEPT ![i] = task]
    /\ pending_batches' = Finally(task, pending_batches)
    /\ failed' = failed \cup FailedBy(task)
    /\ UNCHANGED call
    /\ UNCHANGED unkeyed
    /\ UNCHANGED predict
    /\ stats' = StatsAfter(task, stats)
    /\ UNCHANGED <<pc, running, now, batches, batch_start_times, position,
                   committed, wait_i, flush_t, direct, suspended, received,
                   handed, lastCommit, stopInflight, signals>>

WorkerInfer(i, outcome) ==
    /\ pending_futures[i].st = "infer"
    /\ WorkerStep(i, InferAttempt(pending_futures[i], outcome))

WorkerUpload(i, uploads_ok) ==
    /\ pending_futures[i].st = "upload"
    /\ WorkerStep(i, UploadPhase(pending_futures[i], uploads_ok))

\* The executor stores the returned value in the future: future.done().
FutureDone(i) ==
    /\ pending_futures[i].st = "returned"
    /\ pending_futures' = [pending_futures EXCEPT ![i] = Done(@)]
    /\ UNCHANGED call
    /\ UNCHANGED unkeyed
    /\ UNCHANGED predict
    /\ UNCHANGED stats
    /\ UNCHANGED <<pc, running, now, batches, batch_start_times,
                   pending_batches, position, committed, wait_i, flush_t,
                   direct, suspended, received, handed, failed, lastCommit,
                   stopInflight, signals>>


\* -------------------------------------------------------------------- stop
\* A shutdown signal (main's signal_handler) runs stop() on the control
\* thread, wherever that thread is: in the poll loop, or inside an earlier
\* stop(), whose frame then stays suspended below the handler (sys.exit
\* follows the handler's stop(), so a suspended frame never resumes).
SignalBounded(max) ==
    /\ pc # "stopped"
    /\ signals < max
    /\ signals' = signals + 1
    /\ running' = FALSE
    /\ suspended' = IF pc = "stop_direct" THEN Append(suspended, Frame(direct))
                    ELSE suspended
    /\ direct' = NoTask
    /\ stopInflight' = IF running THEN Outstanding(pending_futures)
                       ELSE stopInflight
    /\ wait_i' = 1
    /\ flush_t' = 1
    /\ pc' = IF pending_futures = <<>> THEN "stop_flush" ELSE "stop_wait"
    /\ UNCHANGED call
    /\ UNCHANGED unkeyed
    /\ UNCHANGED predict
    /\ UNCHANGED stats
    /\ UNCHANGED <<now, batches, batch_start_times, pending_batches,
                   pending_futures, position, committed, received, handed,
                   failed, lastCommit>>

Signal == SignalBounded(MaxSignals)

\* One more signal than Spec delivers (SpecSignals).
SignalAgain == SignalBounded(MaxSignals + 1)

StopWaitNext ==
    /\ wait_i' = wait_i + 1
    /\ pc' = IF wait_i < Len(pending_futures) THEN "stop_wait" ELSE "stop_flush"
    /\ UNCHANGED call
    /\ UNCHANGED unkeyed
    /\ UNCHANGED predict
    /\ UNCHANGED stats
    /\ UNCHANGED <<running, now, batches, batch_start_times, pending_batches,
                   pending_futures, position, committed, flush_t, direct,
                   suspended, received, handed, failed, lastCommit,
                   stopInflight, signals>>

\* future.result(timeout=30) returns: the future is done.
StopWaitResult ==
    /\ pc = "stop_wait"
    /\ IsDone(pending_futures[wait_i])
    /\ StopWaitNext

\* future.result(timeout=30) raises TimeoutError, which is logged.
StopWaitTimeout ==
    /\ pc = "stop_wait"
    /\ NotDone(pending_futures[wait_i])
    /\ StopWaitNext

\* The loop over self.topics: a non-empty window is passed to
\* process_batch on the control thread; the window is left in place.
StopFlush ==
    /\ pc = "stop_flush"
    /\ IF flush_t > NumTopics
       THEN /\ pc' = "stop_shutdown"
            /\ UNCHANGED <<flush_t, direct, handed>>
       ELSE IF batches[flush_t] = <<>>
       THEN /\ flush_t' = flush_t + 1
            /\ UNCHANGED <<pc, direct, handed>>
       ELSE /\ direct' = NewTask(flush_t, Offsets(batches[flush_t]), "infer")
            /\ handed' = [handed EXCEPT ![flush_t] = @ \o Offsets(batches[flush_t])]
            /\ pc' = "stop_direct"
            /\ UNCHANGED flush_t
    /\ UNCHANGED call
    /\ UNCHANGED unkeyed
    /\ UNCHANGED predict
    /\ UNCHANGED stats
    /\ UNCHANGED <<running, now, batches, batch_start_times, pending_batches,
                   pending_futures, position, committed, wait_i, suspended,
                   received, failed, lastCommit, stopInflight, signals>>

DirectStep(task) ==
    /\ pending_batches' = Finally(task, pending_batches)
    /\ failed' = failed \cup FailedBy(task)
    /\ IF task.st = "returned"
       THEN direct' = NoTask /\ flush_t' = flush_t + 1 /\ pc' = "stop_flush"
       ELSE direct' = task /\ UNCHANGED <<flush_t, pc>>
    /\ UNCHANGED call
    /\ UNCHANGED unkeyed
    /\ UNCHANGED predict
    /\ stats' = StatsAfter(task, stats)
    /\ UNCHANGED <<running, now, batches, batch_start_times, pending_futures,
                   position, committed, wait_i, suspended, received, handed,
                   lastCommit, stopInflight, signals>>

DirectInfer(outcome) ==
    /\ pc = "stop_direct" /\ direct.st = "infer"
    /\ DirectStep(InferAttempt(direct, outcome))

DirectUpload(uploads_ok) ==
    /\ pc = "stop_direct" /\ direct.st = "upload"
    /\ DirectStep(UploadPhase(direct, uploads_ok))

\* self.executor.shutdown(wait=True) returns once every submitted work
\* item has run and the workers have exited.
ShutdownNoWait(futs) == TRUE

ShutdownReturns(futs) == \A i \in 1..Len(futs) : IsDone(futs[i])

StopShutdown ==
    /\ pc = "stop_shutdown"
    /\ ShutdownReturns(pending_futures)
    /\ pc' = "stop_commit"
    /\ UNCHANGED call
    /\ UNCHANGED unkeyed
    /\ UNCHANGED predict
    /\ UNCHANGED stats
    /\ UNCHANGED <<running, now, batches, batch_start_times, pending_batches,
                   pending_futures, position, committed, wait_i, flush_t,
                   direct, suspended, received, handed, failed, lastCommit,
                   stopInflight, signals>>

\* The final commit and consumer.close().
StopCommit ==
    /\ pc = "stop_commit"
    /\ Commit("final", pending_futures)
    /\ pc' = "stopped"
    /\ UNCHANGED call
    /\ UNCHANGED unkeyed
    /\ UNCHANGED predict
    /\ UNCHANGED stats
    /\ UNCHANGED <<running, now, batches, batch_start_times, pending_batches,
                   pending_futures, position, wait_i, flush_t, direct,
                   suspended, received, handed, failed, stopInflight, signals>>

\* ------------------------------------------------------ the specification
\* No call of process_batch is singled out (see SpecBatch).
NoCall == [st |-> "none"]

\* FrameProcessor.__init__, and start() up to its loop.
WindowsInit ==
    /\ batches = [t \in Topics |-> <<>>]
    /\ batch_start_times = [t \in Topics |-> None]
    /\ pending_batches = [t \in Topics |-> FALSE]

ControlInit ==
    /\ pc = "cleanup"
    /\ running = TRUE
    /\ now = 1
    /\ pending_futures = <<>>
    /\ position = [t \in Topics |-> 0]
    /\ committed = [t \in Topics |-> 0]
    /\ wait_i = 1
    /\ flush_t = 1
    /\ direct = NoTask
    /\ suspended = <<>>
    /\ signals = 0
    /\ received = [t \in Topics |-> <<>>]
    /\ handed = [t \in Topics |-> <<>>]
    /\ failed = {}
    /\ lastCommit = [kind |-> "none", outstanding |-> {}, unresolved |-> {}]
    /\ stopInflight = {}
    /\ stats = [frames_processed |-> 0, batches_processed |-> 0,
                frames_per_topic |-> [t \in Topics |-> 0]]
    /\ unkeyed = {}

ConsumerInit ==
    /\ WindowsInit
    /\ ControlInit

\* No request to the inference service under study.
NoRequest == [st |-> "none"]

Init ==
    /\ ConsumerInit
    /\ call = NoCall
    /\ predict = NoRequest

Next ==
    \/ Cleanup
    \/ Tick
    \/ PollNone
    \/ PollError
    \/ \E t \in Topics : PollMalformed(t)
    \/ \E t \in Topics : PollRecord(t)
    \/ \E i \in 1..Len(pending_futures) : WorkerStart(i)
    \/ \E i \in 1..Len(pending_futures), outcome \in Outcomes : WorkerInfer(i, outcome)
    \/ \E i \in 1..Len(pending_futures), uploads_ok \in BOOLEAN : WorkerUpload(i, uploads_ok)
    \/ \E i \in 1..Len(pending_futures) : FutureDone(i)
    \/ Signal
    \/ StopWaitResult
    \/ StopWaitTimeout
    \/ StopFlush
    \/ \E outcome \in Outcomes : DirectInfer(outcome)
    \/ \E uploads_ok \in BOOLEAN : DirectUpload(uploads_ok)
    \/ StopShutdown
    \/ StopCommit

Spec == Init /\ [][Next]_vars

\* The consumer with one more shutdown signal: a signal that arrives while
\* stop() is draining, or after it, runs stop() again.
NextSignals ==
    \/ Next
    \/ SignalAgain

SpecSignals == Init /\ [][NextSignals]_vars


\* The running consumer (no shutdown signal) on a topic that may also carry
\* JSON objects without a "stream_id" field.
NextRecords ==
    \/ Cleanup
    \/ Tick
    \/ PollNone
    \/ PollError
    \/ \E t \in Topics : PollMalformed(t)
    \/ \E t \in Topics : PollRecord(t)
    \/ \E t \in Topics : PollUnkeyed(t)
    \/ \E i \in 1..Len(pending_futures) : WorkerStart(i)
    \/ \E i \in 1..Len(pending_futures), outcome \in Outcomes : WorkerInfer(i, outcome)
    \/ \E i \in 1..Len(pending_futures), uploads_ok \in BOOLEAN : WorkerUpload(i, uploads_ok)
    \/ \E i \in 1..Len(pending_futures) : FutureDone(i)

SpecRecords == Init /\ [][NextRecords]_vars

\* ---------------------------- submit_batch_for_processing, one call alone
\* A window of k records, the first of which arrived at time 1.
WindowOf(k) == [i \in 1..k |-> [off |-> i, at |-> 1]]

\* The dispatcher before the call: any windows, with their start times,
\* and any flags.
InitSubmit ==
    /\ ControlInit
    /\ call = NoCall
    /\ predict = NoRequest
    /\ batches \in [Topics -> {WindowOf(k) : k \in 0..MaxWindow}]
    /\ batch_start_times =
          [t \in Topics |-> IF batches[t] = <<>> THEN None ELSE 1]
    /\ pending_batches \in [Topics -> BOOLEAN]

SubmitStep ==
    UNCHANGED <<pc, running, now, position, committed, wait_i, flush_t,
                direct, suspended, signals, received, failed, lastCommit,
                stopInflight, stats, unkeyed, predict>>

\* self.submit_batch_for_processing(topic); call.before keeps the
\* dispatcher as the call found it.
SubmitCall(t) ==
    /\ call.st = "none"
    /\ call' = [st |-> "submitted", topic |-> t, before |-> Dispatcher]
    /\ SetDispatcher(submit_batch_for_processing(Dispatcher, t))
    /\ SubmitStep

\* A worker runs the submitted batch to its return: the finally block
\* clears the flag.
SubmitWorker ==
    /\ call.st = "submitted"
    /\ pending_futures # <<>>
    /\ LET task == UploadPhase(pending_futures[1], TRUE) IN
          /\ pending_futures' = <<task>>
          /\ pending_batches' = Finally(task, pending_batches)
    /\ call' = [call EXCEPT !.st = "returned"]
    /\ UNCHANGED <<batches, batch_start_times, handed>>
    /\ SubmitStep

\* The poll loop then handles a record of topic t (start 555-563).
SubmitAppend(t) ==
    /\ call.st \in {"submitted", "returned"}
    /\ call' = [call EXCEPT !.st = "appended"]
    /\ SetDispatcher(AppendRecord(Dispatcher, t, MaxWindow + 1, now))
    /\ SubmitStep

NextSubmit ==
    \/ \E t \in Topics : SubmitCall(t)
    \/ SubmitWorker
    \/ \E t \in Topics : SubmitAppend(t)

SpecSubmit == InitSubmit /\ [][NextSubmit]_vars

\* ------------------------------------- process_batch, one call in detail
\* settings.s3_bucket, the default bucket.
s3_bucket == <<"video-pipeline-output">>

\* self.topic_bucket_mapping: a JSON mapping may name any of the topics.
Mappings == {[t \in S |-> <<"bucket", t>>] : S \in SUBSET Topics}

\* bucket = self.topic_bucket_mapping.get(topic, settings.s3_bucket)
BucketDefault(topic, mapping) == s3_bucket

BucketFor(topic, mapping) ==
    IF topic \in DOMAIN mapping THEN mapping[topic] ELSE s3_bucket

\* What the detector finds: the number of detections of a frame, for a few
\* kinds of video.
DetPatterns == {"none", "odd", "third", "all"}

Detections(pattern, frame_number) ==
    CASE pattern = "none" -> 0
      [] pattern = "odd" -> frame_number % 2
      [] pattern = "third" -> IF frame_number % 3 = 0 THEN 2 ELSE 0
      [] pattern = "all" -> 3

\* predict_batch: one FrameResult per frame of the request, in order, with
\* the frame's frame_number.
Response(chunk, pattern) ==
    [i \in 1..Len(chunk) |->
        [frame_number |-> chunk[i],
         detections |-> Detections(pattern, chunk[i])]]

\* batch[i:i + max_chunk_size], for the k-th value i of
\* range(0, len(batch), max_chunk_size).
Chunk(batch, k) ==
    LET i == (k - 1) * max_chunk_size IN
    SubSeq(batch, i + 1,
           IF i + max_chunk_size < Len(batch) THEN i + max_chunk_size
           ELSE Len(batch))

\* for i, result in enumerate(inference_response.results):
\*     frame_msg = chunk[i]
Pairs(chunk, results) ==
    [i \in 1..Len(results) |->
        [msg |-> chunk[i],
         frame_number |-> results[i].frame_number,
         detections |-> results[i].detections]]

\* datetime.utcnow().strftime("%Y%m%d_%H%M%S"): the second in which the
\* call runs, one of two.
Clocks == {<<"utcnow", 0>>, <<"utcnow", 1>>}

\* frame_msg.get("timestamp"): the capture timestamp the producer put in the
\* record.
CaptureTimestamp(msg) == <<"captured", msg>>

\* s3_key = f"{settings.s3_prefix}/{stream_id}/{timestamp}_frame{n}.jpg",
\* timestamp being the wall clock at the upload.
S3Key(msg, frame_number, utcnow) ==
    [prefix |-> "s3_prefix", stream_id |-> "stream_id",
     timestamp |-> utcnow, frame_number |-> frame_number]

\* if not result.detections: continue
NeedsUploadAlways(result) == TRUE

NeedsUpload(result) == result.detections # 0

\* upload_to_s3 raised after its last attempt: process_batch returns
\* False; what was uploaded stays.
UploadFailedRollback(c) == [UploadPhase(c, FALSE) EXCEPT !.uploads = <<>>]

UploadFailed(c) == UploadPhase(c, FALSE)

\* A call process_batch(batch, topic) on a batch of n frames, numbered
\* 1..n.  chunk_calls: the chunks call_inference_service_chunk was invoked
\* with; results: the results received, each with its frame_msg;
\* cursor: results the loop is done with; upload_calls: the invocations of
\* upload_to_s3; uploads: the objects put.
NewCall(t, n, p, m, clock) ==
    [topic |-> t, batch |-> [i \in 1..n |-> i], st |-> "entry", chunk |-> 1,
     attempts |-> 0, lastErr |-> "none", ok |-> FALSE,
     pattern |-> p, mapping |-> m, utcnow |-> clock, chunk_calls |-> <<>>, results |-> <<>>,
     cursor |-> 0, up_attempts |-> 0, upload_calls |-> <<>>, uploads |-> <<>>]

\* A step of the call; the finally block clears the topic's flag when the
\* call returns from inside the try.
BatchStep(c) ==
    /\ call' = c
    /\ pending_batches' = Finally(c, pending_batches)
    /\ stats' = StatsAfter(c, stats)
    /\ UNCHANGED unkeyed
    /\ UNCHANGED predict
    /\ UNCHANGED <<pc, running, now, batches, batch_start_times,
                   pending_futures, position, committed, wait_i, flush_t,
                   direct, suspended, signals, received, handed, failed,
                   lastCommit, stopInflight>>

\* if not batch: return True
BatchEnter ==
    /\ call.st = "entry"
    /\ call' = IF call.batch = <<>>
               THEN [call EXCEPT !.st = "returned", !.ok = TRUE]
               ELSE [call EXCEPT !.st = "infer"]
    /\ UNCHANGED <<consumer_vars, predict>>

\* One attempt of call_inference_service_chunk on the current chunk.
BatchInfer(outcome) ==
    /\ call.st = "infer"
    /\ LET chunk == Chunk(call.batch, call.chunk)
           c1 == [call EXCEPT !.chunk_calls =
                     IF call.attempts = 0 THEN Append(@, chunk) ELSE @]
           c2 == IF outcome = "ok"
                 THEN [c1 EXCEPT !.results =
                          @ \o Pairs(chunk, Response(chunk, call.pattern))]
                 ELSE c1
       IN BatchStep(InferAttempt(c2, outcome))

\* The results loop on a frame with no detections.
BatchSkip ==
    /\ call.st = "upload"
    /\ call.cursor < Len(call.results)
    /\ ~NeedsUpload(call.results[call.cursor + 1])
    /\ BatchStep([call EXCEPT !.cursor = @ + 1])

\* The results loop on a frame with detections: one attempt of
\* upload_to_s3's put_object.
BatchUpload(put_ok) ==
    /\ call.st = "upload"
    /\ call.cursor < Len(call.results)
    /\ NeedsUpload(call.results[call.cursor + 1])
    /\ LET r == call.results[call.cursor + 1]
           u == [frame |-> r.msg, frame_number |-> r.frame_number,
                 bucket |-> BucketFor(call.topic, call.mapping),
                 key |-> S3Key(r.msg, r.frame_number, call.utcnow)]
           a == call.up_attempts + 1
           c1 == [call EXCEPT !.upload_calls =
                     IF call.up_attempts = 0 THEN Append(@, u) ELSE @]
       IN BatchStep(
            IF put_ok
            THEN [c1 EXCEPT !.uploads = Append(@, u), !.cursor = @ + 1,
                            !.up_attempts = 0]
            ELSE IF RetryAgain("transient", a)
            THEN [c1 EXCEPT !.up_attempts = a]
            ELSE UploadFailed([c1 EXCEPT !.up_attempts = a]))

\* The loop is over: statistics, return True.
BatchReturn ==
    /\ call.st = "upload"
    /\ call.cursor = Len(call.results)
    /\ BatchStep(UploadPhase(call, TRUE))

InitBatch ==
    /\ ConsumerInit
    /\ predict = NoRequest
    /\ call \in {NewCall(t, n, p, m, clock) :
                    t \in Topics, n \in 0..MaxBatchLen, p \in DetPatterns,
                    m \in Mappings, clock \in Clocks}

NextBatch ==
    \/ BatchEnter
    \/ \E outcome \in Outcomes : BatchInfer(outcome)
    \/ BatchSkip
    \/ \E put_ok \in BOOLEAN : BatchUpload(put_ok)
    \/ BatchReturn

SpecBatch == InitBatch /\ [][NextBatch]_vars


\* ------------------------------------ inference service: POST /predict
\* Longest request enumerated in full, and most boxes the detector finds
\* in one frame.
MaxFrames == 3
MaxDetections == 2

\* BatchInferenceRequest.frames: Field(..., min_length=1, max_length=25)
min_length == 1
max_length == 25
\* Settings.max_batch_size
max_batch_size == 25

\* FrameInput: frame_number and frame_data, which is base64 of a JPEG
\* image or anything else.
FrameInputs == [frame_number : {1, 2}, frame_data : {"jpeg", "garbage"}]

\* The request bodies: every list of up to MaxFrames frames, and one list
\* longer than the endpoint accepts.
Requests ==
    UNION {[1..n -> FrameInputs] : n \in 0..MaxFrames}
       \cup {[i \in 1..(max_length + 1) |->
                 [frame_number |-> 1, frame_data |-> "jpeg"]]}

\* decode_frame: every exception of b64decode, Image.open or cvtColor
\* becomes a ValueError.
decode_frame(frame_data) ==
    IF frame_data = "jpeg" THEN "frame" ELSE "ValueError"

\* run_inference on a decoded frame: the length of the detections list, or
\* an exception of model.predict.
Inferences == {<<"detections", d>> : d \in 0..MaxDetections} \cup {<<"raises", 0>>}

NewRequest(frames) ==
    [st |-> "received", frames |-> frames, cursor |-> 0, results |-> <<>>,
     total_detections |-> 0, total_frames |-> 0, status |-> 0]

\* FrameResult(frame_number=frame_input.frame_number, detections=...)
FrameResult(frame_input, detections) ==
    [frame_number |-> frame_input.frame_number, detections |-> detections]

\* The loop body with the except ValueError branch appending nothing.
AfterFrameSkipInvalid(p, inference) ==
    LET frame_input == p.frames[p.cursor + 1] IN
    IF decode_frame(frame_input.frame_data) = "ValueError"
    THEN [p EXCEPT !.cursor = @ + 1]
    ELSE IF inference[1] = "raises"
    THEN [p EXCEPT !.st = "responded", !.status = 500]
    ELSE [p EXCEPT !.cursor = @ + 1,
                   !.results = Append(@, FrameResult(frame_input, inference[2])),
                   !.total_detections = @ + inference[2]]

\* One iteration of for frame_input in request.frames (cursor frames are
\* behind the loop): the try branch appends the frame's result and counts
\* its detections; except ValueError appends a result with detections=[];
\* any other exception leaves the loop for the outer except Exception
\* (HTTP 500).
AfterFrame(p, inference) ==
    LET frame_input == p.frames[p.cursor + 1] IN
    IF decode_frame(frame_input.frame_data) = "ValueError"
    THEN [p EXCEPT !.cursor = @ + 1,
                   !.results = Append(@, FrameResult(frame_input, 0))]
    ELSE IF inference[1] = "raises"
    THEN [p EXCEPT !.st = "responded", !.status = 500]
    ELSE [p EXCEPT !.cursor = @ + 1,
                   !.results = Append(@, FrameResult(frame_input, inference[2])),
                   !.total_detections = @ + inference[2]]

PredictStep == UNCHANGED <<consumer_vars, call>>

\* The request is validated against BatchInferenceRequest (HTTP 422), then
\* predict_batch tests its length (HTTP 400).
PredictValidate ==
    /\ predict.st = "received"
    /\ predict' =
          IF Len(predict.frames) < min_length \/ Len(predict.frames) > max_length
          THEN [predict EXCEPT !.st = "responded", !.status = 422]
          ELSE IF Len(predict.frames) > max_batch_size
          THEN [predict EXCEPT !.st = "responded", !.status = 400]
          ELSE [predict EXCEPT !.st = "loop"]
    /\ PredictStep

PredictFrame(inference) ==
    /\ predict.st = "loop"
    /\ predict.cursor < Len(predict.frames)
    /\ predict' = AfterFrame(predict, inference)
    /\ PredictStep

\* return BatchInferenceResponse(results=results,
\*     total_frames=len(request.frames), total_detections=total_detections)
PredictRespond ==
    /\ predict.st = "loop"
    /\ predict.cursor = Len(predict.frames)
    /\ predict' = [predict EXCEPT !.st = "responded", !.status = 200,
                                  !.total_frames = Len(predict.frames)]
    /\ PredictStep

InitPredict ==
    /\ ConsumerInit
    /\ call = NoCall
    /\ predict \in {NewRequest(frames) : frames \in Requests}

NextPredict ==
    \/ PredictValidate
    \/ \E inference \in Inferences : PredictFrame(inference)
    \/ PredictRespond

SpecPredict == InitPredict /\ [][NextPredict]_vars


\* ================================================================ claims
\* Every call of process_batch the state holds: behind a future, made by
\* stop(), or suspended below a signal handler.
Calls == Range(pending_futures) \cup {direct} \cup Range(suspended)

\* The batches of topic t that are submitted and not done, or being
\* processed by stop() on the control thread.  (A call of stop() that a
\* later signal suspended is not counted.)
ActiveCalls(t) ==
    Cardinality({i \in 1..Len(pending_futures) :
                    pending_futures[i].topic = t /\ NotDone(pending_futures[i])})
    + (IF InBody(direct) /\ direct.topic = t THEN 1 ELSE 0)

\* Age of topic t's open window, from the arrival of its first record.
WindowAge(t) == now - batches[t][1].at

\* C1: a commit is never issued while a submitted batch, of any topic, is
\* still outstanding.
C1_CommitNeverRacesOutstanding == lastCommit.outstanding = {}

\* C2: at every commit, every valid record polled so far has had its
\* processing attempt resolved: none is in an open window, inside a call of
\* process_batch that has not returned, or never handed to process_batch.
C2_CommitAcksOnlyResolved == lastCommit.unresolved = {}

\* C3: for every topic, at most one batch is being processed or is
\* submitted and not done.
C3_OneActivePerTopic == \A t \in Topics : ActiveCalls(t) <= 1

\* C4: with no batch failing, once the consumer has stopped (on one shutdown
\* signal) the batches handed to process_batch for a topic, concatenated in
\* dispatch order, the shutdown flush included, are the valid records
\* received for it: none missing, none twice, in order.
C4_BatchesEqualReceived ==
    (pc = "stopped" /\ failed = {} /\ signals = 1)
        => \A t \in Topics : handed[t] = received[t]

\* C5: a valid record received is retained, also when its topic had a batch
\* in flight: it is in the topic's open window or has been dispatched.
C5_ReceivedRecordRetained ==
    \A t \in Topics : \A off \in Range(received[t]) :
        off \in Range(handed[t]) \/ off \in Range(Offsets(batches[t]))

\* C6: the records of a batch whose processing failed are not acknowledged
\* to the broker: the committed position does not cover them.
C6_FailedNotAcknowledged ==
    \A x \in failed : x[2] > committed[x[1]]

\* C7: should_process_batch is true exactly when the window has batch_size
\* records or is non-empty and at least batch_timeout_seconds old; and no
\* poll-loop iteration leaves a window of batch_size records behind.
C7_TriggerIffSizeOrAge ==
    \A t \in Topics :
        /\ should_process_batch(batches[t], batch_start_times[t], now)
             <=> \/ Len(batches[t]) >= batch_size
                 \/ batches[t] # <<>> /\ WindowAge(t) >= batch_timeout_seconds
        /\ Len(batches[t]) < batch_size

C7_Witness ==
    /\ pc = "poll"
    /\ \E t \in Topics :
          /\ Len(batches[t]) = batch_size - 1
          /\ WindowAge(t) >= batch_timeout_seconds
          /\ should_process_batch(batches[t], batch_start_times[t], now)
    /\ \E t \in Topics : Len(handed[t]) = batch_size
    /\ \E t \in Topics : batches[t] = <<>>
          /\ ~should_process_batch(batches[t], batch_start_times[t], now)

\* C8: an inference call that keeps failing is attempted 3 times and not a
\* 4th; the call then returns False with the topic's flag cleared, so a set
\* flag always has a call that will clear it.
C8_ThreeAttemptsThenFailed ==
    /\ \A c \in Calls :
          /\ c.attempts <= 3
          /\ c.st = "infer" => c.attempts < 3
          /\ (c.st = "returned" /\ c.lastErr # "none")
                => c.attempts = 3 /\ ~c.ok
    /\ \A t \in Topics :
          pending_batches[t] =>
             \E i \in 1..Len(pending_futures) :
                /\ pending_futures[i].topic = t
                /\ pending_futures[i].st \in {"queued", "infer", "upload"}

\* A batch of topic t failed on its third transient error, the flag is
\* clear again, and a record received later is in a new window.
C8_Witness ==
    \E t \in Topics :
        /\ \E i \in 1..Len(pending_futures) :
              /\ pending_futures[i].topic = t
              /\ pending_futures[i].st = "returned"
              /\ pending_futures[i].lastErr = "transient"
              /\ pending_futures[i].attempts = 3
              /\ \A k \in 1..Len(pending_futures[i].batch) :
                    <<t, pending_futures[i].batch[k]>> \in failed
        /\ ~pending_batches[t]
        /\ batches[t] # <<>>
        /\ \A x \in failed : x[1] = t => x[2] < batches[t][1].off

\* C9: a client error (4xx) of the inference endpoint is not retried: the
\* call that got it has failed the batch.
C9_ClientErrorNotRetried ==
    \A c \in Calls : c.lastErr = "client" => c.st = "returned"

\* C10: the final commit is made only when every submitted batch, those in
\* flight when shutdown began included, has resolved.
C10_FinalCommitAfterInflight ==
    /\ lastCommit.kind = "final" => lastCommit.outstanding = {}
    /\ pc \in {"stop_commit", "stopped"} =>
          \A i \in 1..Len(pending_futures) : IsDone(pending_futures[i])

\* Shutdown began with a batch in flight for each of the two topics, and
\* the consumer has made its final commit and stopped.
C10_Witness ==
    /\ pc = "stopped"
    /\ stopInflight = Topics
    /\ lastCommit.kind = "final"

\* Number of times offset off of topic t was handed to process_batch.
TimesHanded(t, off) ==
    Cardinality({i \in 1..Len(handed[t]) : handed[t][i] = off})

\* C11: once shutdown has begun nothing is polled any more; when the
\* consumer has stopped (on one signal), every valid record polled before
\* the shutdown was handed to process_batch exactly once, and the final
\* commit found no record unprocessed.
C11_DrainLeavesNothingUnprocessed ==
    /\ ~running => pc \notin {"cleanup", "poll"}
    /\ (pc = "stopped" /\ signals = 1) =>
          /\ lastCommit.kind = "final"
          /\ lastCommit.unresolved = {}
          /\ \A t \in Topics : \A off \in Range(received[t]) :
                TimesHanded(t, off) = 1

\* The steps stop() can take on the control thread by itself, without a
\* worker making progress (the timed wait gives up on its own).
StopStep ==
    \/ StopWaitResult
    \/ StopWaitTimeout
    \/ StopFlush
    \/ \E outcome \in Outcomes : DirectInfer(outcome)
    \/ \E uploads_ok \in BOOLEAN : DirectUpload(uploads_ok)
    \/ StopShutdown
    \/ StopCommit

\* C12: shutdown never depends on a worker finishing: from every state of
\* stop() before Stopped, the control thread can take its next step even if
\* no worker ever moves again.
C12_StopNeverBlocksOnWorker ==
    (~running /\ pc # "stopped") => ENABLED StopStep

\* The calls of process_batch for topic t that have started and not yet
\* returned.
StartedCalls(t) == {c \in Calls : c.topic = t /\ InBody(c)}

\* C13: within a topic, the processing of a later window never starts
\* before the processing of an earlier one has returned: the calls of a
\* topic that are inside process_batch all work on the same window, and
\* that window is the latest one dispatched.
C13_WindowsProcessedInOrder ==
    \A t \in Topics : \A c1 \in StartedCalls(t) :
        /\ \A c2 \in StartedCalls(t) : c1.batch = c2.batch
        /\ Len(handed[t]) >= Len(c1.batch)
        /\ c1.batch = SubSeq(handed[t], Len(handed[t]) - Len(c1.batch) + 1,
                             Len(handed[t]))

\* A second window of a topic is being processed by a worker, after an
\* earlier window of the same topic.
C13_Witness ==
    \E i \in 1..Len(pending_futures) :
        /\ InBody(pending_futures[i])
        /\ Len(handed[pending_futures[i].topic])
              > Len(pending_futures[i].batch)

InferenceComplete ==
    \/ call.st = "upload"
    \/ call.st = "returned" /\ call.lastErr = "none"

\* The call failed in call_inference_service, on its chunk call.chunk.
InferenceFailed ==
    call.st = "returned" /\ ~call.ok /\ call.lastErr # "none"

\* The call failed in upload_to_s3.
UploadRaised ==
    call.st = "returned" /\ ~call.ok /\ call.lastErr = "none"

\* Frame numbers of the results r..s that have detections, in order.
RECURSIVE Detected(_, _, _)
Detected(results, r, s) ==
    IF r > s THEN <<>>
    ELSE (IF results[r].detections # 0 THEN <<results[r].frame_number>>
          ELSE <<>>) \o Detected(results, r + 1, s)

FrameNumbers(us) == [i \in 1..Len(us) |-> us[i].frame_number]

\* C15, as stated: when a later chunk fails, the frames with detections of
\* the earlier chunks have been uploaded.
C15_EarlierChunksUploaded ==
    (InferenceFailed /\ call.chunk >= 2) =>
        FrameNumbers(call.uploads)
           = Detected(call.results, 1, Len(call.results))

\* C15, amended: no upload is made before every chunk has its response, so
\* the failure of a chunk, a later one included, fails the batch with
\* nothing uploaded; when an upload fails, the batch is reported failed
\* and the uploads made before it stay applied.
C15_ChunkFailurePrecedesUploads ==
    /\ call.st \in {"entry", "infer"} =>
          call.upload_calls = <<>> /\ call.uploads = <<>>
    /\ InferenceFailed => call.upload_calls = <<>> /\ call.uploads = <<>>
    /\ UploadRaised =>
          /\ call.cursor < Len(call.results)
          /\ FrameNumbers(call.uploads)
                = Detected(call.results, 1, call.cursor)

\* The second chunk of a batch failed after the first chunk's response
\* reported detections: the batch has failed and nothing is uploaded.
C15_Witness ==
    /\ InferenceFailed
    /\ call.chunk = 2
    /\ Detected(call.results, 1, Len(call.results)) # <<>>
    /\ call.uploads = <<>>

RECURSIVE Concat(_)
Concat(seqs) ==
    IF seqs = <<>> THEN <<>> ELSE Head(seqs) \o Concat(Tail(seqs))

\* C16: the chunks call_inference_service calls the endpoint with are
\* consecutive pieces of the batch, each of at most 25 records; when every
\* chunk has its response there were ceil(n/25) of them, all but the last
\* of 25, their concatenation and that of their results is the batch in
\* order; 30 records give chunks of 25 and 5; an empty batch gives none.
C16_ChunksPartitionBatch ==
    LET n == Len(call.batch)
        cs == call.chunk_calls
        k == Len(cs)
        all == Concat(cs)
    IN /\ \A j \in 1..k : Len(cs[j]) >= 1 /\ Len(cs[j]) <= 25
       /\ Len(all) <= n /\ all = SubSeq(call.batch, 1, Len(all))
       /\ InferenceComplete =>
             /\ k = (n + 24) \div 25
             /\ \A j \in 1..(k - 1) : Len(cs[j]) = 25
             /\ all = call.batch
             /\ FrameNumbers(call.results) = call.batch
             /\ \A i \in 1..n : call.results[i].msg = call.batch[i]
             /\ n = 30 => k = 2 /\ Len(cs[1]) = 25 /\ Len(cs[2]) = 5
       /\ n = 0 => k = 0

\* A batch of 30 records got its two responses.
C16_Witness ==
    /\ Len(call.batch) = 30
    /\ InferenceComplete
    /\ Len(call.chunk_calls) = 2

\* Number of invocations of upload_to_s3 for frame fn.
UploadCalls(fn) ==
    Cardinality({u \in 1..Len(call.upload_calls) :
                    call.upload_calls[u].frame_number = fn})

\* C17: a frame with no detections causes no invocation of upload_to_s3; a
\* frame with detections causes one, whatever their number, once the loop
\* has reached it, and never a second; every invocation is for the frame's
\* own image and the bucket of the batch's topic (the default bucket when
\* the mapping has no entry for the topic).
C17_OneUploadPerDetectedFrame ==
    /\ \A j \in 1..Len(call.results) :
          LET r == call.results[j] IN
          /\ r.detections = 0 => UploadCalls(r.frame_number) = 0
          /\ UploadCalls(r.frame_number) <= 1
          /\ (r.detections >= 1 /\ j <= call.cursor)
                => UploadCalls(r.frame_number) = 1
          /\ j > call.cursor + 1 => UploadCalls(r.frame_number) = 0
    /\ \A u \in 1..Len(call.upload_calls) :
          LET x == call.upload_calls[u] IN
          /\ x.frame = x.frame_number
          /\ x.bucket = IF call.topic \in DOMAIN call.mapping
                        THEN <<"bucket", call.topic>>
                        ELSE <<"video-pipeline-output">>
    /\ Len(call.uploads) <= Len(call.upload_calls)

\* A batch with frames of 0 and of 2 detections was processed to the end,
\* for a topic with a bucket of its own.
C17_Witness ==
    /\ call.st = "returned" /\ call.ok
    /\ call.pattern = "third"
    /\ Len(call.batch) >= 3
    /\ call.topic \in DOMAIN call.mapping
    /\ FrameNumbers(call.uploads)
          = Detected(call.results, 1, Len(call.results))

\* C26: the key of an upload is determined by the record and its result:
\* its timestamp is the record's capture timestamp, and the same frame
\* processed in another second gets the same key.
C26_UploadKeyDeterministic ==
    \A u \in 1..Len(call.upload_calls) :
        LET x == call.upload_calls[u] IN
        /\ x.key.timestamp = CaptureTimestamp(x.frame)
        /\ \A clock \in Clocks :
              S3Key(x.frame, x.frame_number, clock) = x.key

\* C18: a batch's future is done before its topic's flag is cleared: a
\* clear flag means no submission of the topic that is not yet done.
C18_DoneBeforeFlagCleared ==
    \A t \in Topics :
        ~pending_batches[t] =>
            \A i \in 1..Len(pending_futures) :
                pending_futures[i].topic = t => IsDone(pending_futures[i])

\* C19: the control thread never runs process_batch itself.
C19_ControlThreadNeverProcesses ==
    /\ direct = NoTask
    /\ suspended = <<>>

\* C20: a cleanup step of the running loop commits only if a submitted
\* batch had completed; it does commit when one had and none is left
\* outstanding; and it leaves the committed position alone when none had.
C20_CleanupCommitsOnCompletion ==
    [][(pc = "cleanup" /\ pc' = "poll") =>
         LET completed == \E i \in 1..Len(pending_futures) :
                              IsDone(pending_futures[i])
             outstanding == \E i \in 1..Len(pending_futures) :
                                NotDone(pending_futures[i])
         IN /\ (committed' # committed \/ lastCommit' # lastCommit)
                  => completed
            /\ (completed /\ ~outstanding) =>
                  /\ committed' = position
                  /\ lastCommit'.kind = "cleanup"
                  /\ lastCommit'.outstanding = {}
            /\ ~completed =>
                  committed' = committed /\ lastCommit' = lastCommit]_vars

\* A cleanup step found a completed batch and nothing outstanding, and
\* committed the position reached.
C20_Witness ==
    /\ pc = "poll"
    /\ lastCommit.kind = "cleanup"
    /\ lastCommit.outstanding = {}
    /\ pending_futures = <<>>
    /\ Polled > 0
    /\ committed = position

\* C21: an idle poll tick re-evaluates the time trigger of every topic:
\* check_and_submit_timeouts, applied to the state the loop is in, submits
\* every topic whose window is non-empty, at least batch_timeout_seconds old
\* and not in flight, and leaves the other topics as they are.
C21_IdleTickSubmitsTimedOut ==
    LET D == check_and_submit_timeouts(Dispatcher, 1, now) IN
    \A t \in Topics :
        IF /\ batches[t] # <<>>
           /\ WindowAge(t) >= batch_timeout_seconds
           /\ ~pending_batches[t]
        THEN /\ D.b[t] = <<>> /\ D.s[t] = None /\ D.p[t]
             /\ \E i \in (Len(pending_futures) + 1)..Len(D.f) :
                    D.f[i] = NewTask(t, Offsets(batches[t]), "queued")
             /\ D.h[t] = handed[t] \o Offsets(batches[t])
        ELSE /\ D.b[t] = batches[t] /\ D.s[t] = batch_start_times[t]
             /\ D.p[t] = pending_batches[t] /\ D.h[t] = handed[t]

\* One idle tick has submitted the timed-out windows of two topics, neither
\* of them full: both are queued and every window is empty.
C21_Witness ==
    /\ pc = "cleanup" /\ running
    /\ Len(pending_futures) = 2
    /\ pending_futures[1].topic # pending_futures[2].topic
    /\ \A i \in 1..2 :
          /\ pending_futures[i].st = "queued"
          /\ Len(pending_futures[i].batch) < batch_size
    /\ \A t \in Topics : batches[t] = <<>>

\* C28: a topic whose flag is set has an empty open window with no start
\* time, so a non-empty window has its flag clear; and the window stop()
\* processes at shutdown is of a topic with no batch in flight.
C28_FlagSetMeansWindowEmpty ==
    /\ \A t \in Topics :
          pending_batches[t] =>
             batches[t] = <<>> /\ batch_start_times[t] = None
    /\ InBody(direct) => ~pending_batches[direct.topic]

\* The loop polled a record of a topic whose flag was set: the flag is
\* still set and the window is empty.
C28_Witness ==
    \E t \in Topics :
        /\ pending_batches[t] /\ batches[t] = <<>> /\ running
        /\ \E off \in Range(received[t]) : off \notin Range(handed[t])

\* C29: every batch handed to the pool has between 1 and batch_size
\* records, every open window has fewer than batch_size, and with
\* batch_size <= 25 a batch is one inference chunk.
C29_BatchSizeBounded ==
    /\ \A i \in 1..Len(pending_futures) :
          NotDone(pending_futures[i]) =>
             /\ Len(pending_futures[i].batch) >= 1
             /\ Len(pending_futures[i].batch) <= batch_size
             /\ batch_size <= 25 =>
                   /\ NumChunks(pending_futures[i].batch) = 1
                   /\ pending_futures[i].chunk = 1
    /\ \A t \in Topics : Len(batches[t]) < batch_size

\* A full batch of one topic is with a worker while a batch of one record,
\* submitted on a timeout, is with another.
C29_Witness ==
    \E i, j \in 1..Len(pending_futures) :
        /\ InBody(pending_futures[i]) /\ InBody(pending_futures[j])
        /\ Len(pending_futures[i].batch) = batch_size
        /\ Len(pending_futures[j].batch) = 1

\* C30: a second stop() processes no window again: over the whole shutdown
\* each record is handed to process_batch at most once.
C30_StopIdempotent ==
    \A t \in Topics : \A off \in Range(received[t]) : TimesHanded(t, off) <= 1

\* Records of topic t inside calls of process_batch that have not returned.
OpenRecords(t) ==
    Sum([i \in 1..Len(pending_futures) |->
            IF pending_futures[i].topic = t
               /\ pending_futures[i].st \in {"queued", "infer", "upload"}
            THEN Len(pending_futures[i].batch) ELSE 0],
        1..Len(pending_futures))
    + (IF InBody(direct) /\ direct.topic = t THEN Len(direct.batch) ELSE 0)

FailedOf(t) == {x \in failed : x[1] = t}

\* C22: the statistics count the batches that succeeded and no others:
\* frames_processed is the sum of frames_per_topic, and per topic the
\* frames counted, the records of failed batches and the records still
\* being processed never exceed the records handed to process_batch, and
\* add up to them exactly on one shutdown signal; the records of a failed
\* batch are in no window of the running loop and in no batch waiting in or
\* running on the pool.
C22_FailedBatchNotCountedNotRequeued ==
    /\ stats.frames_processed = Sum(stats.frames_per_topic, Topics)
    /\ stats.batches_processed <= stats.frames_processed
    /\ stats.frames_processed <= batch_size * stats.batches_processed
    /\ \A t \in Topics :
          /\ stats.frames_per_topic[t] + Cardinality(FailedOf(t))
                + OpenRecords(t) <= Len(handed[t])
          /\ signals <= 1 =>
                stats.frames_per_topic[t] + Cardinality(FailedOf(t))
                   + OpenRecords(t) = Len(handed[t])
    /\ \A x \in failed :
          /\ running => x[2] \notin Range(Offsets(batches[x[1]]))
          /\ signals <= 1 => TimesHanded(x[1], x[2]) = 1
          /\ \A i \in 1..Len(pending_futures) :
                (pending_futures[i].topic = x[1]
                    /\ pending_futures[i].st \in {"queued", "infer", "upload"})
                   => x[2] \notin Range(pending_futures[i].batch)

\* One batch failed and another succeeded, the loop is running and nothing
\* is being processed: the statistics count the successful batch only.
C22_Witness ==
    /\ running
    /\ failed # {}
    /\ stats.batches_processed = 1
    /\ \A t \in Topics : OpenRecords(t) = 0
    /\ stats.frames_processed + Cardinality(failed)
          = Sum([t \in Topics |-> Len(handed[t])], Topics)

\* C23: a malformed message (its position is consumed, no valid record is
\* received) changes no window, start time, flag or pending submission,
\* fails no batch, is not polled again, and the loop goes on to its next
\* iteration.
C23_MalformedDropped ==
    [][(position' # position /\ received' = received) =>
          /\ UNCHANGED <<batches, batch_start_times, pending_batches,
                         pending_futures, handed, failed, stats, committed,
                         running>>
          /\ Sum(position', Topics) = Sum(position, Topics) + 1
          /\ pc' = "cleanup"]_vars

\* A malformed message was polled while one topic had an open window and
\* another a batch in flight.
C23_Witness ==
    /\ pc = "cleanup" /\ running
    /\ Polled > Sum([t \in Topics |-> Len(received[t])], Topics)
    /\ \E t \in Topics : batches[t] # <<>>
    /\ \E t \in Topics : pending_batches[t]

\* ---- claims about one call of submit_batch_for_processing (SpecSubmit)
\* The dispatcher, topic by topic, is as the call found it.
SameAsBefore ==
    /\ batches = call.before.b
    /\ batch_start_times = call.before.s
    /\ pending_batches = call.before.p
    /\ pending_futures = call.before.f
    /\ handed = call.before.h

\* C24: submit_batch_for_processing(topic) with the topic's flag set, or
\* with an empty window, changes nothing: window, start time, flags and
\* pending_futures are as before, and no task is submitted.
C24_SubmitNoOpWhenInFlight ==
    (call.st = "submitted"
        /\ (call.before.p[call.topic] \/ call.before.b[call.topic] = <<>>))
       => SameAsBefore

\* The call found the flag set and a non-empty window, and left both.
C24_Witness ==
    /\ call.st = "submitted"
    /\ call.before.p[call.topic]
    /\ call.before.b[call.topic] # <<>>
    /\ batches[call.topic] = call.before.b[call.topic]
    /\ pending_futures = <<>>

\* The call took the window: flag clear and window non-empty before it.
Swapped ==
    /\ call.st # "none"
    /\ ~call.before.p[call.topic]
    /\ call.before.b[call.topic] # <<>>

\* C25: the submitted batch is the window's contents at the swap and stays
\* so; right after the swap the open window is empty with no start time;
\* a record appended afterwards is in the new window only, and no record
\* is in both the submitted batch and the open window.
C25_SwapKeepsEveryRecordOnce ==
    Swapped =>
       /\ Len(pending_futures) >= 1
       /\ pending_futures[1].topic = call.topic
       /\ pending_futures[1].batch = Offsets(call.before.b[call.topic])
       /\ handed[call.topic] = Offsets(call.before.b[call.topic])
       /\ call.st \in {"submitted", "returned"} =>
             /\ batches[call.topic] = <<>>
             /\ batch_start_times[call.topic] = None
       /\ Len(batches[call.topic]) <= 1
       /\ Range(Offsets(batches[call.topic]))
             \cap Range(pending_futures[1].batch) = {}

\* After the swap and the worker's return a record of the same topic was
\* appended: it is alone in the new window, and the batch is as submitted.
C25_Witness ==
    /\ Swapped
    /\ call.st = "appended"
    /\ Offsets(batches[call.topic]) = <<MaxWindow + 1>>
    /\ Len(pending_futures[1].batch) = MaxWindow

\* C27: every accepted submission resolves and unblocks its topic: a set
\* flag always has a submission of its topic that is queued or inside
\* process_batch, whose return will clear it.
C27_SubmissionUnblocksTopic ==
    \A t \in Topics :
        pending_batches[t] =>
           \E i \in 1..Len(pending_futures) :
              /\ pending_futures[i].topic = t
              /\ pending_futures[i].st \in {"queued", "infer", "upload"}

\* C31: a response of POST /predict has exactly one result per frame of the
\* request, in request order, each with its frame's frame_number and, for a
\* frame that does not decode, no detections; total_frames is the number of
\* frames of the request and total_detections the sum of the results'
\* detection counts.
C31_OneResultPerRequestFrame ==
    (predict.st = "responded" /\ predict.status = 200) =>
       /\ Len(predict.results) = Len(predict.frames)
       /\ \A i \in 1..Len(predict.results) :
             /\ predict.results[i].frame_number = predict.frames[i].frame_number
             /\ decode_frame(predict.frames[i].frame_data) = "ValueError"
                   => predict.results[i].detections = 0
       /\ predict.total_frames = Len(predict.frames)
       /\ predict.total_detections =
             Sum([i \in 1..Len(predict.results) |-> predict.results[i].detections],
                 1..Len(predict.results))

\* A response to a request of three frames whose second does not decode,
\* the others having detections.
C31_Witness ==
    /\ predict.st = "responded" /\ predict.status = 200
    /\ Len(predict.frames) = 3
    /\ predict.frames[2].frame_data = "garbage"
    /\ predict.frames[1].frame_number = 2 /\ predict.frames[3].frame_number = 1
    /\ predict.results[1].detections > 0 /\ predict.results[3].detections > 0

==========================================================================
